---- MODULE Spec2Model ----
(***************************************************************************)
(* Model of the value-at-risk notebook (finance/value-at-risk/main.py) and *)
(* of the readiness poller (wait.py).                                      *)
(*                                                                         *)
(* The notebook is a straight-line script: one action per code cell.  Its  *)
(* state is the content of the four stores, the joins, the cube with its   *)
(* measures and hierarchy, and the two simulations.  The measures are      *)
(* declarative formulas; they are operators here, evaluated on the current *)
(* state at a cell of the cube: a node of the Trading Book Hierarchy, a    *)
(* source scenario of the analytics store, a confidence-level scenario.    *)
(*                                                                         *)
(* The poller is a loop; its actions are the statements of the loop body.  *)
(*                                                                         *)
(* A measure that has no value at a cell is None; a value x is Some(x).    *)
(* Quantiles are carried multiplied by 100, confidence levels in percent,  *)
(* so that linear interpolation stays in the integers.                     *)
(***************************************************************************)
EXTENDS Integers, Sequences, FiniteSets, TLC

VARIABLES
    pc,             \* the next cell of the notebook
    session,        \* None, or Some(configuration of the session)
    instruments,    \* rows of store "Instruments": instrument codes
    analytics,      \* store "Instruments Analytics": source scenario -> rows
    positions,      \* rows of store "Positions"
    trading_desks,  \* rows of store "Trading Desk"
    joins,          \* the joins declared, <<base store, target store>>
    cube,           \* None, or Some(name of the base store of the cube)
    measures,       \* names of the measures defined on the cube
    hierarchy,      \* levels of h["Trading Book Hierarchy"], <<>> before it exists
    simulation,     \* None, or Some(the "Confidence Level" simulation)
    wpc,            \* poller: the next statement of wait.py
    server,         \* poller's environment: what answers on localhost:9999
    status,         \* poller: outcome of the last requests.get
    output,         \* poller: the last line printed
    nrequests,      \* poller: requests issued (saturating)
    nfailures,      \* poller: failure messages printed (saturating)
    nready,         \* poller: times "URL is ready" was printed (saturating)
    nsleeps,        \* poller: sleeps done (saturating)
    slept           \* poller: seconds of the last sleep, 0 before any

nbvars == <<pc, session, instruments, analytics, positions, trading_desks,
            joins, cube, measures, hierarchy, simulation>>
wvars == <<wpc, server, status, output, nrequests, nfailures, nready, nsleeps, slept>>
vars == <<nbvars, wvars>>

(***************************************************************************)
(* Bounds of the model.                                                    *)
(***************************************************************************)
\* Length of the PnL vectors of the base analytics file (272 in the data).
VecLen == 2
\* The short-history file has shorter vectors (150 in the data).
ShortLen == VecLen - 1
\* Quantities a position holds (a negative quantity is a short position).
Quantities == {-1, 2}
\* Instrument codes that occur in the files.
Codes == {"I1", "I2"}
\* Keys of the rows a positions file may hold.
PositionKeys == {<<"I1", "B1">>, <<"I1", "B2">>, <<"I2", "B2">>}
\* The poller's counters saturate here.
MaxCount == 2

(***************************************************************************)
(* Program constants.                                                      *)
(***************************************************************************)
Port == 9999
SamplingLines == 10
BaseConfidence == 95
SleepSeconds == 2
StatusOk == 200

None == <<>>
Some(x) == <<x>>

BaseScenario == "Base"
ShortScenario == "Model short Volatility"
NA == "N/A"

(***************************************************************************)
(* Files the notebook reads.  They are inputs: any content within the      *)
(* bounds, keys unique (the stores are keyed).                             *)
(***************************************************************************)
InstrumentFiles == {Codes, {"I1"}}

\* PnL vectors of len days: a loss on one day, a gain on the others.
PnlVectors(len) == {[k \in 1..len |-> IF k = d THEN -3 ELSE 1] : d \in 1..len}

AnalyticsRows(K, len) ==
    { {[instrument_code |-> i, pnl_vector |-> f[i]] : i \in K} :
        f \in [K -> PnlVectors(len)] }

AnalyticsFiles == AnalyticsRows(Codes, VecLen) \cup AnalyticsRows({"I1"}, VecLen)

\* The short-history file prices the instruments of the base file over a
\* window of ShortLen days of the base history.
Window(v, o) == SubSeq(v, o, o + ShortLen - 1)
ShortAnalyticsFiles(base) ==
    { {[instrument_code |-> r.instrument_code, pnl_vector |-> Window(r.pnl_vector, o)] :
          r \in base} : o \in 1..(VecLen - ShortLen + 1) }

PositionFiles ==
    UNION { { {[instrument_code |-> k[1], book_id |-> k[2], quantity |-> q[k]] : k \in K} :
                q \in [K -> Quantities] } :
            K \in SUBSET PositionKeys }

DeskRow(b, bu, sbu, td, bk) ==
    [book_id |-> b, business_unit |-> bu, sub_business_unit |-> sbu,
     trading_desk |-> td, book |-> bk]

TradingDeskFiles ==
    { {DeskRow("B1", "Forex", "Options", "Desk1", "BookA"),
       DeskRow("B2", "Forex", "Options", "Desk1", "BookB")},
      {DeskRow("B1", "Forex", "Options", "Desk1", "BookA"),
       DeskRow("B2", "Rates", "Swaps", "Desk2", "BookB")},
      {DeskRow("B1", "Forex", "Options", "Desk1", "BookA")} }

(***************************************************************************)
(* Arithmetic on vectors and on values that may be missing.                *)
(***************************************************************************)
VecAdd(a, b) == [k \in 1..Len(a) |-> a[k] + b[k]]
VecSub(a, b) == [k \in 1..Len(a) |-> a[k] - b[k]]
Scale(q, v) == [k \in 1..Len(v) |-> q * v[k]]

\* A missing operand makes a product or a difference missing.
OptScale(q, v) == IF q = None \/ v = None THEN None ELSE Some(Scale(q[1], v[1]))
OptSub(a, b) == IF a = None \/ b = None THEN None ELSE Some(a[1] - b[1])
\* A sum skips the missing terms, and is missing when every term is.
OptAdd(a, b) ==
    IF a = None THEN b ELSE IF b = None THEN a ELSE Some(VecAdd(a[1], b[1]))

RECURSIVE SumVectors(_, _)
SumVectors(S, f) ==
    IF S = {} THEN None
    ELSE LET x == CHOOSE y \in S : TRUE
         IN OptAdd(f[x], SumVectors(S \ {x}, f))

RECURSIVE SumQuantity(_)
SumQuantity(rows) ==
    IF rows = {} THEN 0
    ELSE LET r == CHOOSE y \in rows : TRUE
         IN r.quantity + SumQuantity(rows \ {r})

RECURSIVE Insert(_, _)
Insert(x, s) ==
    IF s = <<>> THEN <<x>>
    ELSE IF x <= Head(s) THEN <<x>> \o s
    ELSE <<Head(s)>> \o Insert(x, Tail(s))

RECURSIVE Sorted(_)
Sorted(v) == IF v = <<>> THEN <<>> ELSE Insert(Head(v), Sorted(Tail(v)))

(***************************************************************************)
(* atoti.array.quantile(vector, q) with the library's defaults: the        *)
(* elements sorted ascending, the rank q * (n - 1) counted from 0, linear  *)
(* interpolation between the two neighbours.  p is q in percent and the    *)
(* result is the quantile times 100.  The vector is not empty.             *)
(***************************************************************************)
Quantile100(v, p) ==
    LET s == Sorted(v)
        n == Len(s)
        rank == p * (n - 1)
        lo == rank \div 100
        hi == IF lo + 1 < n THEN lo + 1 ELSE n - 1
        fr == rank % 100
    IN 100 * s[lo + 1] + fr * (s[hi + 1] - s[lo + 1])

OptQuantile(v, p) == IF v = None \/ p = None THEN None ELSE Some(Quantile100(v[1], p[1]))

(***************************************************************************)
(* The joins.  A join is a reference from the rows of the base store to    *)
(* the row of the target store with the same key; a row whose key has no   *)
(* match stays a fact of the cube, with nothing behind the reference.      *)
(***************************************************************************)
Joined(a, b) == <<a, b>> \in joins

\* positions.join(instruments); instruments.join(analytics): the analytics
\* row a position of instrument i reaches in source scenario scen.
AnalyticsOf(i, scen) ==
    IF Joined("Positions", "Instruments") /\ Joined("Instruments", "Instruments Analytics")
       /\ i \in instruments
    THEN {r \in analytics[scen] : r.instrument_code = i}
    ELSE {}

\* positions.join(trading_desks): the Trading Desk row of book id b.
DeskOf(b) ==
    IF Joined("Positions", "Trading Desk")
    THEN {r \in trading_desks : r.book_id = b}
    ELSE {}

\* The members of the levels of the Trading Book Hierarchy a position sits under.
PathOf(row) ==
    LET d == DeskOf(row.book_id)
    IN [k \in 1..Len(hierarchy) |->
          IF d = {} THEN NA ELSE (CHOOSE r \in d : TRUE)[hierarchy[k]]]

IsPrefix(n, path) == Len(n) <= Len(path) /\ SubSeq(path, 1, Len(n)) = n

\* The nodes of the hierarchy: the root <<>> and every member path that holds a fact.
Nodes == {<<>>} \cup {SubSeq(PathOf(r), 1, k) : r \in positions, k \in 0..Len(hierarchy)}
Root == <<>>
Parent(n) == SubSeq(n, 1, Len(n) - 1)
\* atoti.scope.siblings(h, exclude_self=True)
Siblings(n) ==
    {m \in Nodes : Len(m) = Len(n) /\ Len(n) > 0 /\ Parent(m) = Parent(n) /\ m # n}

\* The positions that roll up into node n.
Facts(n) == {r \in positions : IsPrefix(n, PathOf(r))}
CodesIn(n) == {r.instrument_code : r \in Facts(n)}

SourceScenarios == DOMAIN analytics

(***************************************************************************)
(* The "Confidence Level" simulation: in a scenario other than the base    *)
(* one, each measure the simulation replaces takes the scenario's value.   *)
(***************************************************************************)
DefaultCL == "95%"

\* A simulation that also replaces the quantities.
SimulationReplaceQuantity == {"Confidence Level", "Quantity"}

\* replace=[m["Confidence Level"]]
SimulationReplace == {"Confidence Level"}

\* confidence_levels[...] = ..., in percent
ConfidenceScenarios ==
    [c \in {"90%", "98%", "99%", "Worst"} |->
        CASE c = "90%" -> 90 [] c = "98%" -> 98 [] c = "99%" -> 99 [] c = "Worst" -> 100]

CLScenarios ==
    IF simulation = None THEN {DefaultCL}
    ELSE {simulation[1].base_scenario} \cup DOMAIN simulation[1].scenarios

Simulated(name, cl, original) ==
    IF simulation # None /\ name \in simulation[1].replace
       /\ cl \in DOMAIN simulation[1].scenarios
    THEN Some(simulation[1].scenarios[cl])
    ELSE original

(***************************************************************************)
(* The measures, at node n, source scenario scen, confidence scenario cl.  *)
(***************************************************************************)
\* m["quantity.SUM"] on the facts of node n that hold instrument i
QuantitySum(n, i) ==
    LET rows == {r \in Facts(n) : r.instrument_code = i}
    IN IF rows = {} THEN None ELSE Some(SumQuantity(rows))

\* m["Quantity"] = m["quantity.SUM"]
Quantity(n, i, cl) == Simulated("Quantity", cl, QuantitySum(n, i))

\* m["Quantity"] over all the instruments of the node
NodeQuantity(n, cl) ==
    Simulated("Quantity", cl,
              IF Facts(n) = {} THEN None ELSE Some(SumQuantity(Facts(n))))

\* m["pnl_vector.VALUE"] at instrument i
PnlVectorValue(i, scen) ==
    LET rows == AnalyticsOf(i, scen)
    IN IF rows = {} THEN None ELSE Some((CHOOSE r \in rows : TRUE).pnl_vector)

\* The vector of the instrument, not scaled by the quantity held.
UnscaledPnlVector(n, i, scen, cl) == PnlVectorValue(i, scen)

\* scaled_pnl_vector = m["Quantity"] * m["pnl_vector.VALUE"]
ScaledPnlVector(n, i, scen, cl) == OptScale(Quantity(n, i, cl), PnlVectorValue(i, scen))

\* m["Position Vector"]: the scaled vector at instrument level, summed above
PositionVector(n, scen, cl) ==
    SumVectors(CodesIn(n), [i \in CodesIn(n) |-> ScaledPnlVector(n, i, scen, cl)])

\* m["Confidence Level"] = 0.95, in percent
ConfidenceLevel(cl) == Simulated("Confidence Level", cl, Some(BaseConfidence))

\* The quantile level m["VaR"] reads the vector at
VaRLevel(cl) == ConfidenceLevel(cl)

\* m["VaR"] = quantile(m["Position Vector"], m["Confidence Level"])
VaR(n, scen, cl) == OptQuantile(PositionVector(n, scen, cl), VaRLevel(cl))

\* m["Parent Position Vector Ex"]: sum over the siblings, the node excluded
ParentPositionVectorEx(n, scen, cl) ==
    SumVectors(Siblings(n), [m \in Siblings(n) |-> PositionVector(m, scen, cl)])

\* m["Parent VaR Ex"]
ParentVaREx(n, scen, cl) == OptQuantile(ParentPositionVectorEx(n, scen, cl), VaRLevel(cl))

\* m["Parent VaR"] = parent_value(m["VaR"], h): no value at the root
ParentVaR(n, scen, cl) == IF n = Root THEN None ELSE VaR(Parent(n), scen, cl)

\* m["Marginal VaR"] = m["Parent VaR"] - m["Parent VaR Ex"]
MarginalVaR(n, scen, cl) == OptSub(ParentVaR(n, scen, cl), ParentVaREx(n, scen, cl))

(***************************************************************************)
(* The cells of the notebook.                                              *)
(***************************************************************************)
Goto(next) == pc' = next

CreateSession ==
    /\ pc = "create_session"
    /\ session' = Some([port |-> Port, sampling_lines |-> SamplingLines, sampled |-> TRUE])
    /\ Goto("read_instruments")
    /\ UNCHANGED <<wvars, instruments, analytics, positions, trading_desks, joins, cube,
                   measures, hierarchy, simulation>>

ReadInstruments ==
    /\ pc = "read_instruments"
    /\ \E f \in InstrumentFiles : instruments' = f
    /\ Goto("read_analytics")
    /\ UNCHANGED <<wvars, session, analytics, positions, trading_desks, joins, cube,
                   measures, hierarchy, simulation>>

ReadAnalytics ==
    /\ pc = "read_analytics"
    /\ \E f \in AnalyticsFiles : analytics' = [s \in {BaseScenario} |-> f]
    /\ Goto("read_positions")
    /\ UNCHANGED <<wvars, session, instruments, positions, trading_desks, joins, cube,
                   measures, hierarchy, simulation>>

ReadPositions ==
    /\ pc = "read_positions"
    /\ \E f \in PositionFiles : positions' = f
    /\ Goto("join_stores")
    /\ UNCHANGED <<wvars, session, instruments, analytics, trading_desks, joins, cube,
                   measures, hierarchy, simulation>>

JoinStores ==
    /\ pc = "join_stores"
    /\ joins' = joins \cup {<<"Positions", "Instruments">>,
                            <<"Instruments", "Instruments Analytics">>}
    /\ Goto("create_cube")
    /\ UNCHANGED <<wvars, session, instruments, analytics, positions, trading_desks, cube,
                   measures, hierarchy, simulation>>

CreateCube ==
    /\ pc = "create_cube"
    /\ cube' = Some("Positions")
    /\ measures' = {"quantity.SUM", "pnl.VALUE", "pnl_vector.VALUE"}
    /\ Goto("quantity")
    /\ UNCHANGED <<wvars, session, instruments, analytics, positions, trading_desks, joins,
                   hierarchy, simulation>>

Define(names, next) ==
    /\ measures' = measures \cup names
    /\ Goto(next)
    /\ UNCHANGED <<wvars, session, instruments, analytics, positions, trading_desks, joins,
                   cube, hierarchy, simulation>>

DefineQuantity == pc = "quantity" /\ Define({"Quantity"}, "pnl")

DefinePnL == pc = "pnl" /\ Define({"PnL"}, "trading_desks")

ReadTradingDesks ==
    /\ pc = "trading_desks"
    /\ \E f \in TradingDeskFiles : trading_desks' = f
    /\ joins' = joins \cup {<<"Positions", "Trading Desk">>}
    /\ hierarchy' = <<"business_unit", "sub_business_unit", "trading_desk", "book">>
    /\ Goto("position_vector")
    /\ UNCHANGED <<wvars, session, instruments, analytics, positions, cube, measures, simulation>>

DefinePositionVector == pc = "position_vector" /\ Define({"Position Vector"}, "var")

DefineVaR == pc = "var" /\ Define({"Confidence Level", "VaR"}, "simulation")

SetupSimulation ==
    /\ pc = "simulation"
    /\ simulation' = Some([name |-> "Confidence Level", replace |-> SimulationReplace,
                           base_scenario |-> DefaultCL, scenarios |-> ConfidenceScenarios])
    /\ Goto("parent_ex")
    /\ UNCHANGED <<wvars, session, instruments, analytics, positions, trading_desks, joins,
                   cube, measures, hierarchy>>

DefineParentEx == pc = "parent_ex" /\ Define({"Parent Position Vector Ex"}, "marginal")

DefineMarginalVaR ==
    pc = "marginal" /\ Define({"Parent VaR Ex", "Parent VaR", "Marginal VaR"}, "load_scenario")

\* The scenario a file is loaded into, and the rows it holds after the load:
\* a scenario starts as the base store, and a loaded row replaces the row of its key.
LoadIntoBase == BaseScenario
LoadTarget == ShortScenario
Upsert(rows, f) ==
    {r \in rows : r.instrument_code \notin {x.instrument_code : x \in f}} \cup f

LoadScenario ==
    /\ pc = "load_scenario"
    /\ \E f \in ShortAnalyticsFiles(analytics[BaseScenario]) :
          analytics' = [s \in DOMAIN analytics \cup {LoadTarget} |->
                          IF s = LoadTarget THEN Upsert(analytics[BaseScenario], f)
                          ELSE analytics[s]]
    /\ Goto("load_all_data")
    /\ UNCHANGED <<wvars, session, instruments, positions, trading_desks, joins, cube,
                   measures, hierarchy, simulation>>

\* session.load_all_data(); session.wait() then blocks: pc stays at "wait".
LoadAllData ==
    /\ pc = "load_all_data"
    /\ session' = Some([session[1] EXCEPT !.sampled = FALSE])
    /\ Goto("wait")
    /\ UNCHANGED <<wvars, instruments, analytics, positions, trading_desks, joins, cube,
                   measures, hierarchy, simulation>>

(***************************************************************************)
(* wait.py: the readiness poller.                                          *)
(***************************************************************************)
\* The status of a response is Some(code); a request that raised has None.
Raised == None
DownCodes == {404, 503}

MsgReady == "URL is ready"
MsgStatus == "Waiting for URL, current status is"
MsgException == "exception"
MsgFailed == "Waiting for URL, connexion failed"

Inc(n) == IF n < MaxCount THEN n + 1 ELSE n

\* What requests.get("http://localhost:9999/") produces against the server.
Responses ==
    CASE server = "down" -> {Raised}
      [] server = "starting" -> {Some(c) : c \in DownCodes}
      [] server = "up" -> {Some(StatusOk)}

\* A loop body without the break.
AfterReadyNoBreak == "sleep"
\* A request outside any try block: the exception ends the script.
OnExceptionExit == "done"

\* Where control goes after print("URL is ready"): break leaves the loop.
AfterReady == "done"
\* Where control goes after the failure message of either branch: the sleep
\* that ends the loop body.
AfterFailure == "sleep"
\* Where control goes when requests.get raises: the except clause.
OnException == "print_exc"

Request ==
    /\ wpc = "request"
    /\ \E r \in Responses :
          /\ status' = r
          /\ wpc' = IF r = Raised THEN OnException ELSE "check"
    /\ nrequests' = Inc(nrequests)
    /\ UNCHANGED <<nbvars, server, output, nfailures, nready, nsleeps, slept>>

Check ==
    /\ wpc = "check"
    /\ wpc' = IF status = Some(StatusOk) THEN "print_ready" ELSE "print_status"
    /\ UNCHANGED <<nbvars, server, status, output, nrequests, nfailures, nready,
                   nsleeps, slept>>

PrintReady ==
    /\ wpc = "print_ready"
    /\ output' = MsgReady
    /\ nready' = Inc(nready)
    /\ wpc' = AfterReady
    /\ UNCHANGED <<nbvars, server, status, nrequests, nfailures, nsleeps, slept>>

PrintStatus ==
    /\ wpc = "print_status"
    /\ output' = MsgStatus
    /\ nfailures' = Inc(nfailures)
    /\ wpc' = AfterFailure
    /\ UNCHANGED <<nbvars, server, status, nrequests, nready, nsleeps, slept>>

PrintException ==
    /\ wpc = "print_exc"
    /\ output' = MsgException
    /\ wpc' = "print_failed"
    /\ UNCHANGED <<nbvars, server, status, nrequests, nfailures, nready, nsleeps, slept>>

PrintFailed ==
    /\ wpc = "print_failed"
    /\ output' = MsgFailed
    /\ nfailures' = Inc(nfailures)
    /\ wpc' = AfterFailure
    /\ UNCHANGED <<nbvars, server, status, nrequests, nready, nsleeps, slept>>

Sleep ==
    /\ wpc = "sleep"
    /\ slept' = SleepSeconds
    /\ nsleeps' = Inc(nsleeps)
    /\ wpc' = "request"
    /\ UNCHANGED <<nbvars, server, status, output, nrequests, nfailures, nready>>

\* The environment: the server on port 9999 starts, answers, or goes away.
ServerChange ==
    /\ \E s \in {"down", "starting", "up"} \ {server} : server' = s
    /\ UNCHANGED <<nbvars, wpc, status, output, nrequests, nfailures, nready, nsleeps, slept>>

PollerStep ==
    Request \/ Check \/ PrintReady \/ PrintStatus \/ PrintException \/ PrintFailed \/ Sleep

Init ==
    /\ pc = "create_session"
    /\ session = None
    /\ instruments = {}
    /\ analytics = [s \in {} |-> {}]
    /\ positions = {}
    /\ trading_desks = {}
    /\ joins = {}
    /\ cube = None
    /\ measures = {}
    /\ hierarchy = <<>>
    /\ simulation = None
    /\ wpc = "request"
    /\ server = "down"
    /\ status = Raised
    /\ output = "none"
    /\ nrequests = 0
    /\ nfailures = 0
    /\ nready = 0
    /\ nsleeps = 0
    /\ slept = 0

Next ==
    \/ CreateSession
    \/ ReadInstruments
    \/ ReadAnalytics
    \/ ReadPositions
    \/ JoinStores
    \/ CreateCube
    \/ DefineQuantity
    \/ DefinePnL
    \/ ReadTradingDesks
    \/ DefinePositionVector
    \/ DefineVaR
    \/ SetupSimulation
    \/ DefineParentEx
    \/ DefineMarginalVaR
    \/ LoadScenario
    \/ LoadAllData

Spec == Init /\ [][Next]_vars

WaitNext ==
    \/ Request
    \/ Check
    \/ PrintReady
    \/ PrintStatus
    \/ PrintException
    \/ PrintFailed
    \/ Sleep
    \/ ServerChange

WaitSpec == Init /\ [][WaitNext]_vars

\* The interpreter keeps running the script: a statement that can run does.
WaitFairSpec == WaitSpec /\ WF_vars(PollerStep)

(***************************************************************************)
(* The claims about the measures.                                          *)
(***************************************************************************)
Defined(name) == name \in measures
Cells == Nodes \X SourceScenarios \X CLScenarios

MinOf(v) == CHOOSE x \in {v[k] : k \in 1..Len(v)} : \A k \in 1..Len(v) : x <= v[k]

\* The positions whose instrument code or book id has no match in the joined stores.
Orphans ==
    {r \in positions :
        \/ r.instrument_code \notin instruments
        \/ \E scen \in SourceScenarios :
              \A a \in analytics[scen] : a.instrument_code # r.instrument_code
        \/ Joined("Positions", "Trading Desk") /\ DeskOf(r.book_id) = {}}

\* C1: where VaR is defined (and every position finds its instrument and its
\* book), the VaR of every node with a Position Vector, at every confidence
\* level rho, is the (1 - rho)-quantile of the node's Position Vector.
C1_VaRIsLowerTailQuantile ==
    (Defined("VaR") /\ Orphans = {}) =>
        \A c \in Cells :
            LET pv == PositionVector(c[1], c[2], c[3])
            IN pv # None =>
                 VaR(c[1], c[2], c[3]) = Some(Quantile100(pv[1], 100 - ConfidenceLevel(c[3])[1]))

\* C2: in scenario "Worst" (confidence level 1.0) the VaR of every node is the
\* minimum element of the node's Position Vector (every position finding its
\* instrument and its book).
C2_WorstIsMinimum ==
    (Defined("VaR") /\ simulation # None /\ Orphans = {}) =>
        \A n \in Nodes, scen \in SourceScenarios :
            LET pv == PositionVector(n, scen, "Worst")
            IN pv # None => VaR(n, scen, "Worst") = Some(100 * MinOf(pv[1]))

\* The term a position contributes: its quantity times the PnL vector its
\* instrument code reaches through the joins, nothing when it reaches none.
PositionTerm(r, scen) == OptScale(Some(r.quantity), PnlVectorValue(r.instrument_code, scen))

\* C3: the Position Vector of every node is the element-wise sum, over the
\* positions that roll up into the node, of the position's quantity times the
\* PnL vector of the position's instrument.
C3_PositionVectorIsSumOverPositions ==
    Defined("Position Vector") =>
        \A c \in Cells :
            PositionVector(c[1], c[2], c[3]) =
                SumVectors(Facts(c[1]), [r \in Facts(c[1]) |-> PositionTerm(r, c[2])])

\* C3 witness: a node holds two positions of one instrument in different books,
\* with different quantities, and a position of another instrument, and has a
\* Position Vector that is not zero.
C3_Witness ==
    /\ Defined("Position Vector")
    /\ \E n \in Nodes, scen \in SourceScenarios :
          /\ \E r1, r2, r3 \in Facts(n) :
                /\ r1.instrument_code = r2.instrument_code
                /\ r1.quantity # r2.quantity
                /\ r3.instrument_code # r1.instrument_code
                /\ PositionTerm(r1, scen) # None
                /\ PositionTerm(r3, scen) # None
          /\ PositionVector(n, scen, DefaultCL) # None
          /\ \E k \in 1..VecLen : PositionVector(n, scen, DefaultCL)[1][k] # 0

\* The Position Vector of the parent with the node's own vector removed.
ParentLess(pp, pn) ==
    IF pp = None THEN None ELSE IF pn = None THEN pp ELSE Some(VecSub(pp[1], pn[1]))

\* C4: for every non-root node and confidence level, Marginal VaR is the VaR of
\* the parent minus the VaR (same level) of the parent's Position Vector with
\* the node's own Position Vector removed (every position finding its
\* instrument and its book).
C4_MarginalVaRIsParentMinusRest ==
    (Defined("Marginal VaR") /\ Orphans = {}) =>
        \A c \in Cells :
            c[1] # Root =>
                MarginalVaR(c[1], c[2], c[3]) =
                    OptSub(VaR(Parent(c[1]), c[2], c[3]),
                           OptQuantile(ParentLess(PositionVector(Parent(c[1]), c[2], c[3]),
                                                  PositionVector(c[1], c[2], c[3])),
                                       VaRLevel(c[3])))

\* C5: whatever confidence-level scenario is selected, the Position Vector and
\* the Quantity of every node are those of the base scenario; the Confidence
\* Level is the scenario's.
C5_ScenarioLeavesPositionVector ==
    simulation # None =>
        /\ \A n \in Nodes, scen \in SourceScenarios :
              LET base == PositionVector(n, scen, DefaultCL)
                  qty == NodeQuantity(n, DefaultCL)
              IN \A cl \in CLScenarios :
                    PositionVector(n, scen, cl) = base /\ NodeQuantity(n, cl) = qty
        /\ ConfidenceLevel(DefaultCL) = Some(BaseConfidence)
        /\ \A cl \in DOMAIN ConfidenceScenarios :
              ConfidenceLevel(cl) = Some(ConfidenceScenarios[cl])

\* C5 witness: the simulation is set up and some node has a VaR that differs
\* between two confidence-level scenarios.
C5_Witness ==
    /\ simulation # None
    /\ \E n \in Nodes, scen \in SourceScenarios :
          /\ PositionVector(n, scen, "90%") # None
          /\ VaR(n, scen, "90%") # VaR(n, scen, "Worst")

\* What the join of the stores yields for the positions: the members each
\* position sits under and the quantity of each node.
JoinView == [r \in positions |-> PathOf(r)]
QuantityView == [n \in Nodes |-> NodeQuantity(n, DefaultCL)]
BaseVectors == [n \in Nodes |-> PositionVector(n, BaseScenario, DefaultCL)]

\* C6: the load of the short-history file into scenario "Model short
\* Volatility" changes only the analytics rows of that scenario: the analytics
\* of every scenario that existed, the other stores, the joins, the members
\* the positions join to and the quantities are the same before and after.
C6_LoadChangesOnlyScenario ==
    [][pc = "load_scenario" =>
          /\ \A s \in DOMAIN analytics : s \in DOMAIN analytics' /\ analytics'[s] = analytics[s]
          /\ DOMAIN analytics' = DOMAIN analytics \cup {ShortScenario}
          /\ UNCHANGED <<instruments, positions, trading_desks, joins, hierarchy>>
          /\ JoinView' = JoinView
          /\ QuantityView' = QuantityView
          /\ BaseVectors' = BaseVectors]_vars

\* C6 witness: the load is done, and the scenario's Position Vector of some
\* node differs from the base one.
C6_Witness ==
    /\ pc = "load_all_data"
    /\ \E n \in Nodes :
          /\ PositionVector(n, ShortScenario, DefaultCL) # None
          /\ PositionVector(n, ShortScenario, DefaultCL) # PositionVector(n, BaseScenario, DefaultCL)

\* C7: once the stores are joined and the Position Vector is aggregated, no
\* position with an unmatched instrument code or book id is held by the cube:
\* the join has rejected it.
C7_OrphansRejected ==
    (Defined("Position Vector") /\ Joined("Positions", "Trading Desk")) => Orphans = {}

(***************************************************************************)
(* The claims about the poller.                                            *)
(***************************************************************************)
Stepped == wpc' # wpc
FailedAttempt == wpc \in {"print_exc", "print_status"}

\* What follows each statement of a failing attempt.
FailurePath ==
    /\ (wpc = "request" /\ Stepped /\ status' = Raised) => wpc' = "print_exc"
    /\ (wpc = "check" /\ Stepped /\ status # Some(StatusOk)) => wpc' = "print_status"
    /\ (wpc = "print_exc" /\ Stepped) => (output' = MsgException /\ wpc' = "print_failed")
    /\ (wpc = "print_failed" /\ Stepped) =>
          (output' = MsgFailed /\ nfailures' = Inc(nfailures) /\ wpc' = "sleep")
    /\ (wpc = "print_status" /\ Stepped) =>
          (output' = MsgStatus /\ nfailures' = Inc(nfailures) /\ wpc' = "sleep")
    /\ (wpc = "sleep" /\ Stepped) =>
          (slept' = SleepSeconds /\ nsleeps' = Inc(nsleeps) /\ wpc' = "request")
    /\ (wpc = "request" /\ Stepped) => nrequests' = Inc(nrequests)

\* C9: the poller never gives up while the endpoint is not ready: an attempt
\* that raises or returns a status other than 200 is followed by a failure
\* message, a sleep of 2 seconds and another request; the script has ended only
\* after a 200, and until then it always has a next statement to run, whatever
\* the number of attempts made.
C9_RetriesForever ==
    /\ [][FailurePath]_vars
    /\ [](wpc = "done" => status = Some(StatusOk))
    /\ [](wpc # "done" => ENABLED PollerStep)
    /\ (FailedAttempt ~> (wpc = "request" /\ slept = SleepSeconds /\ nfailures >= 1))

\* C9 witness: the poller is about to issue a request after as many failed
\* attempts, of both kinds, as the counters hold.
C9_Witness ==
    /\ wpc = "request"
    /\ nfailures = MaxCount
    /\ nsleeps = MaxCount
    /\ nrequests = MaxCount
    /\ slept = SleepSeconds
    /\ output = MsgFailed

\* C10: the poller ends exactly on the first attempt that returns 200: it
\* prints "URL is ready" once, as its last action, after a 200 only; nothing
\* runs after it; an attempt that returns 200 ends the script; and if from some
\* point on the server answers 200, the script ends.
C10_EndsOnFirst200 ==
    /\ [](wpc = "done" => (status = Some(StatusOk) /\ output = MsgReady /\ nready = 1))
    /\ [](wpc # "done" => (output # MsgReady /\ nready = 0))
    /\ [][wpc = "done" =>
            UNCHANGED <<wpc, status, output, nrequests, nfailures, nready, nsleeps, slept>>]_vars
    /\ [][(wpc = "check" /\ Stepped /\ status = Some(StatusOk)) => wpc' = "print_ready"]_vars
    /\ [][(wpc = "print_ready" /\ Stepped) => wpc' = "done"]_vars
    /\ ((wpc = "check" /\ status = Some(StatusOk)) ~> (wpc = "done"))
    /\ (<>[](server = "up") => <>(wpc = "done"))

\* C10 witness: the script has ended after failed attempts and sleeps.
C10_Witness ==
    /\ wpc = "done"
    /\ output = MsgReady
    /\ nfailures >= 1
    /\ nsleeps >= 1
    /\ nrequests >= 2

====
